---- MODULE Spec2Model ----
(***************************************************************************)
(* kubenv: a store of named kubeconfig profiles (src/lib.rs).              *)
(*                                                                         *)
(* The state is the KubEnv struct (current_config, configs,                *)
(* configs_by_name, configs_by_hash) together with the part of the         *)
(* filesystem it works on: the profile directory <kubenv_dir> and the      *)
(* active-config file <kube_dir>/config.  Strings (names, file names, hex  *)
(* digests) are sequences of byte codes, compared as Rust compares str.    *)
(* File contents are sequences of bytes.  Every public method of KubEnv is *)
(* one action; the filesystem may also be changed from outside the store   *)
(* (another tool rewriting the active config, a file deleted by hand).     *)
(*                                                                         *)
(* I/O failures that do not follow from the modelled filesystem state      *)
(* (disk full, permission changes on the directory) are not modelled.      *)
(***************************************************************************)
EXTENDS Integers, Sequences, FiniteSets, TLC

VARIABLES
    kubenv_dir_exists,  \* <kubenv_dir> is a directory
    kubenv_files,       \* file name -> File, the entries of <kubenv_dir>
    kube_config,        \* the File at <kube_dir>/config
    current_config,     \* KubEnv.current_config: <<>> (None) or <<kc>> (Some)
    configs,            \* KubEnv.configs: Vec<KubeConfig>
    configs_by_name,    \* KubEnv.configs_by_name: HashMap<String, KubeConfig>
    configs_by_hash,    \* KubEnv.configs_by_hash: HashMap<String, KubeConfig>
    last,               \* the last call made and what it returned
    imported,           \* history: [name, hash] of the successful imports
                        \* so far (recorded under SpecImports only)
    read_dir_order      \* history: the file names in the order read_dir
                        \* yielded them to the last sync (recorded under
                        \* SpecReadDir only)

vars == << kubenv_dir_exists, kubenv_files, kube_config, current_config,
           configs, configs_by_name, configs_by_hash, last, imported,
           read_dir_order >>

fs_vars == << kubenv_dir_exists, kubenv_files, kube_config >>

index_vars == << current_config, configs, configs_by_name, configs_by_hash >>

----------------------------------------------------------------------------
(* Bounds of the model *)

\* an import adds a file only while the profile directory holds fewer files
\* than this
MaxFiles == 2

----------------------------------------------------------------------------
(* Strings and digests *)

\* ".kubeconfig"
KUBECONFIG_SUFFIX == << 46, 107, 117, 98, 101, 99, 111, 110, 102, 105, 103 >>

\* "config"
CONFIG_FILE_NAME == << 99, 111, 110, 102, 105, 103 >>

\* &hash[..8] takes this many characters of the hex digest
HashPrefixLen == 8

\* the byte contents callers and other tools write: "", "A"
ContentTable == << << >>, << 65 >> >>

\* sha256 of the entries of ContentTable, as lower-case hex strings
DigestTable ==
  << \* e3b0c44298fc1c149afbf4c8996fb92427ae41e4649b934ca495991b7852b855
     << 101, 51, 98, 48, 99, 52, 52, 50, 57, 56, 102, 99, 49, 99, 49, 52,
        57, 97, 102, 98, 102, 52, 99, 56, 57, 57, 54, 102, 98, 57, 50, 52,
        50, 55, 97, 101, 52, 49, 101, 52, 54, 52, 57, 98, 57, 51, 52, 99,
        97, 52, 57, 53, 57, 57, 49, 98, 55, 56, 53, 50, 98, 56, 53, 53 >>,
     \* 559aead08264d5795d3909718cdd05abd49572e84fe55590eef31a88a08fdffd
     << 53, 53, 57, 97, 101, 97, 100, 48, 56, 50, 54, 52, 100, 53, 55, 57,
        53, 100, 51, 57, 48, 57, 55, 49, 56, 99, 100, 100, 48, 53, 97, 98,
        100, 52, 57, 53, 55, 50, 101, 56, 52, 102, 101, 53, 53, 53, 57, 48,
        101, 101, 102, 51, 49, 97, 56, 56, 97, 48, 56, 102, 100, 102, 102, 100 >> >>

\* the explicit profile names callers use: "a" and "559aead0" (the first
\* eight hex characters of the digest of "A")
NameTable == << << 97 >>,
                << 53, 53, 57, 97, 101, 97, 100, 48 >> >>

Min(a, b) == IF a < b THEN a ELSE b

Contents == { ContentTable[i] : i \in DOMAIN ContentTable }

Names == { NameTable[i] : i \in DOMAIN NameTable }

\* sha256::digest(bytes)
digest(bytes) ==
    DigestTable[CHOOSE i \in 1..Len(ContentTable) : ContentTable[i] = bytes]

\* Ord for str: lexicographic on bytes, a proper prefix is smaller
StrLess(s, t) ==
    \E i \in 1..(Min(Len(s), Len(t)) + 1) :
        /\ \A j \in 1..(i - 1) : s[j] = t[j]
        /\ \/ i > Len(s) /\ i <= Len(t)
           \/ i <= Len(s) /\ i <= Len(t) /\ s[i] < t[i]

\* str::ends_with
ends_with(s, suffix) ==
    /\ Len(s) >= Len(suffix)
    /\ SubSeq(s, Len(s) - Len(suffix) + 1, Len(s)) = suffix

\* str::strip_suffix, for a string that ends with the suffix
strip_suffix(s, suffix) == SubSeq(s, 1, Len(s) - Len(suffix))

\* Option<String>
None == [some |-> FALSE, val |-> << >>]

Some(n) == [some |-> TRUE, val |-> n]

----------------------------------------------------------------------------
(* The filesystem *)

AbsentFile == [kind |-> "absent", bytes |-> << >>]

\* exists but cannot be read as a file (no read permission, a directory)
UnreadableFile == [kind |-> "unreadable", bytes |-> << >>]

RegularFile(bytes) == [kind |-> "file", bytes |-> bytes]

\* self.kube_dir.join("config")
ConfigPath == [dir |-> "kube_dir", file |-> CONFIG_FILE_NAME]

\* self.kubenv_dir.join(file_name)
KubenvPath(file_name) == [dir |-> "kubenv_dir", file |-> file_name]

\* the file a path names, in the filesystem (files, config)
FileAt(files, config, path) ==
    IF path.dir = "kube_dir"
    THEN config
    ELSE IF path.file \in DOMAIN files THEN files[path.file] ELSE AbsentFile

\* get_file_hash: Ok(hex digest) or Err
get_file_hash(files, config, path) ==
    LET f == FileAt(files, config, path)
    IN  IF f.kind = "file"
        THEN [ok |-> TRUE, hash |-> digest(f.bytes)]
        ELSE [ok |-> FALSE, hash |-> << >>]

\* a function without the key k
Without(f, k) == [x \in (DOMAIN f) \ {k} |-> f[x]]

\* a function with key k set to v
With(f, k, v) == [x \in (DOMAIN f) \cup {k} |-> IF x = k THEN v ELSE f[x]]

----------------------------------------------------------------------------
(* KubeConfig and the index *)

\* KubeConfig::new
KubeConfig_new(path, hash, name) ==
    [name |-> IF name.some THEN name.val ELSE SubSeq(hash, 1, HashPrefixLen),
     path |-> path,
     hash |-> hash]

\* the KubEnv struct as a value
SelfOf(cur, cfgs, by_name, by_hash) ==
    [current_config |-> cur, configs |-> cfgs,
     configs_by_name |-> by_name, configs_by_hash |-> by_hash]

Self == SelfOf(current_config, configs, configs_by_name, configs_by_hash)

EmptyMap == [x \in {} |-> << >>]

\* the while loop of add: index counts down while the new config is
\* smaller than self.configs[index - 1] (0-based)
RECURSIVE add_scan(_, _, _)
add_scan(cfgs, kubeconfig, index) ==
    IF index > 0 /\ StrLess(kubeconfig.name, cfgs[index].name)
    THEN add_scan(cfgs, kubeconfig, index - 1)
    ELSE index

\* the position (0-based) at which add inserts
add_index(cfgs, kubeconfig) ==
    IF Len(cfgs) > 0 THEN add_scan(cfgs, kubeconfig, Len(cfgs) - 1) ELSE 0

\* Vec::insert(index, element), index 0-based
vec_insert(v, index, e) ==
    SubSeq(v, 1, index) \o << e >> \o SubSeq(v, index + 1, Len(v))

\* add as it would be without the check of configs_by_hash
add_without_hash_check(self, kubeconfig) ==
    IF kubeconfig.name \in DOMAIN self.configs_by_name
    THEN [ok |-> FALSE, self |-> self]
    ELSE [ok |-> TRUE,
          self |-> [self EXCEPT
              !.configs = vec_insert(self.configs,
                                     add_index(self.configs, kubeconfig),
                                     kubeconfig),
              !.configs_by_name = With(self.configs_by_name,
                                       kubeconfig.name, kubeconfig),
              !.configs_by_hash = With(self.configs_by_hash,
                                       kubeconfig.hash, kubeconfig)]]

\* KubEnv::add: [ok, self]
add(self, kubeconfig) ==
    IF kubeconfig.name \in DOMAIN self.configs_by_name
    THEN [ok |-> FALSE, self |-> self]
    ELSE IF kubeconfig.hash \in DOMAIN self.configs_by_hash
    THEN [ok |-> FALSE, self |-> self]
    ELSE [ok |-> TRUE,
          self |-> [self EXCEPT
              !.configs = vec_insert(self.configs,
                                     add_index(self.configs, kubeconfig),
                                     kubeconfig),
              !.configs_by_name = With(self.configs_by_name,
                                       kubeconfig.name, kubeconfig),
              !.configs_by_hash = With(self.configs_by_hash,
                                       kubeconfig.hash, kubeconfig)]]

\* get_config_by_name(name) is Some
has_config_by_name(self, name) == name \in DOMAIN self.configs_by_name

\* get_config_by_hash(hash) is Some
has_config_by_hash(self, hash) == hash \in DOMAIN self.configs_by_hash

\* the orders in which read_dir may yield the entries S
RECURSIVE ReadDirOrders(_)
ReadDirOrders(S) ==
    IF S = {} THEN { << >> }
    ELSE UNION { { << x >> \o rest : rest \in ReadDirOrders(S \ {x}) } : x \in S }

\* one iteration of the for loop of update_configs
update_configs_entry(self, files, config, file_name) ==
    LET path == KubenvPath(file_name)
        h == get_file_hash(files, config, path)
    IN  IF FileAt(files, config, path).kind = "file"
           /\ ends_with(file_name, KUBECONFIG_SUFFIX)
        THEN IF h.ok
             THEN add(self, KubeConfig_new(path, h.hash,
                        Some(strip_suffix(file_name, KUBECONFIG_SUFFIX)))).self
             ELSE self
        ELSE self

RECURSIVE update_configs_loop(_, _, _, _)
update_configs_loop(self, files, config, order) ==
    IF order = << >> THEN self
    ELSE update_configs_loop(
             update_configs_entry(self, files, config, Head(order)),
             files, config, Tail(order))

\* update_configs as it would be without the clear of configs_by_hash
update_configs_keeping_by_hash(self, files, config, order) ==
    update_configs_loop(
        [self EXCEPT !.configs = << >>,
                     !.configs_by_name = EmptyMap],
        files, config, order)

\* update_configs as it would be if the loop took the entries last to first
update_configs_last_to_first(self, files, config, order) ==
    update_configs_loop(
        [self EXCEPT !.configs = << >>,
                     !.configs_by_name = EmptyMap,
                     !.configs_by_hash = EmptyMap],
        files, config,
        [i \in 1..Len(order) |-> order[Len(order) + 1 - i]])

\* KubEnv::update_configs, read_dir yielding the entries in `order`
update_configs(self, files, config, order) ==
    update_configs_loop(
        [self EXCEPT !.configs = << >>,
                     !.configs_by_name = EmptyMap,
                     !.configs_by_hash = EmptyMap],
        files, config, order)

\* KubEnv::update_current_config
update_current_config(self, files, config) ==
    LET h == get_file_hash(files, config, ConfigPath)
        kubeconfig == KubeConfig_new(ConfigPath, h.hash, None)
    IN  IF ~h.ok THEN self
        ELSE IF config.kind = "file"
        THEN add([self EXCEPT !.current_config = << kubeconfig >>],
                 kubeconfig).self
        ELSE self

----------------------------------------------------------------------------
(* Initial state: KubEnv::new on a machine where nothing was stored yet *)

NoCall == [op |-> "new", name |-> None, content |-> << >>,
           res |-> "Ok", out |-> << >>]

Call(op, name, content, res, out) ==
    [op |-> op, name |-> name, content |-> content, res |-> res, out |-> out]

Init ==
    /\ kubenv_dir_exists \in BOOLEAN
    /\ kubenv_files = EmptyMap
    /\ kube_config = AbsentFile
    /\ current_config = << >>
    /\ configs = << >>
    /\ configs_by_name = EmptyMap
    /\ configs_by_hash = EmptyMap
    /\ last = NoCall
    /\ imported = {}
    /\ read_dir_order = << >>

----------------------------------------------------------------------------
(* The public methods of KubEnv *)

\* the index after sync, read_dir yielding the entries in `order`
sync_self(self, files, config, order) ==
    update_current_config(update_configs(self, files, config, order),
                          files, config)

\* KubEnv::sync, read_dir yielding the entries in `order`
sync_body(order) ==
    LET self == sync_self(Self, kubenv_files, kube_config, order)
    IN  /\ kubenv_dir_exists' = TRUE
        /\ current_config' = self.current_config
        /\ configs' = self.configs
        /\ configs_by_name' = self.configs_by_name
        /\ configs_by_hash' = self.configs_by_hash
        /\ last' = Call("sync", None, << >>, "Ok", << >>)
        /\ UNCHANGED << kubenv_files, kube_config, imported >>

\* KubEnv::sync
sync ==
    /\ \E order \in ReadDirOrders(DOMAIN kubenv_files) : sync_body(order)
    /\ UNCHANGED read_dir_order

\* the name set_content gives the file when the call passes `name`
set_content_name(name, content) ==
    IF name.some THEN name.val ELSE digest(content)

\* set_content_result as it would be without the check of configs_by_hash
set_content_result_without_hash_check(self, dir_exists, name, content) ==
    IF name.some /\ has_config_by_name(self, name.val) THEN "DuplicateName"
    ELSE IF ~dir_exists THEN "OpenError"
    ELSE "Ok"

\* what set_content returns
set_content_result(self, dir_exists, name, content) ==
    IF has_config_by_hash(self, digest(content)) THEN "DuplicateContent"
    ELSE IF name.some /\ has_config_by_name(self, name.val) THEN "DuplicateName"
    ELSE IF ~dir_exists THEN "OpenError"
    ELSE "Ok"

\* the call set_content(name, content) keeps the directory within MaxFiles
WithinMaxFiles(name, content) ==
    \/ set_content_result(Self, kubenv_dir_exists, name, content) # "Ok"
    \/ (set_content_name(name, content) \o KUBECONFIG_SUFFIX) \in DOMAIN kubenv_files
    \/ Cardinality(DOMAIN kubenv_files) < MaxFiles

\* set_content_body as it would be if a successful import also added the new
\* profile to the index
set_content_body_updating_index(name, content) ==
    LET res == set_content_result(Self, kubenv_dir_exists, name, content)
        file_name == set_content_name(name, content) \o KUBECONFIG_SUFFIX
        self == add(Self, KubeConfig_new(KubenvPath(file_name), digest(content),
                                         Some(set_content_name(name, content)))).self
    IN  /\ last' = Call("import", name, content, res, << >>)
        /\ UNCHANGED << kubenv_dir_exists, kube_config, current_config >>
        /\ IF res = "Ok"
           THEN /\ kubenv_files' = With(kubenv_files, file_name,
                                        RegularFile(content))
                /\ configs' = self.configs
                /\ configs_by_name' = self.configs_by_name
                /\ configs_by_hash' = self.configs_by_hash
           ELSE UNCHANGED << kubenv_files, configs, configs_by_name,
                             configs_by_hash >>

\* the body of KubEnv::set_content
set_content_body(name, content) ==
    LET res == set_content_result(Self, kubenv_dir_exists, name, content)
        file_name == set_content_name(name, content) \o KUBECONFIG_SUFFIX
    IN  /\ last' = Call("import", name, content, res, << >>)
        /\ IF res = "Ok"
           THEN kubenv_files' = With(kubenv_files, file_name,
                                     RegularFile(content))
           ELSE UNCHANGED kubenv_files
        /\ UNCHANGED << kubenv_dir_exists, kube_config >>
        /\ UNCHANGED index_vars

\* KubEnv::set_content (import)
set_content(name, content) ==
    /\ WithinMaxFiles(name, content)
    /\ set_content_body(name, content)
    /\ UNCHANGED << imported, read_dir_order >>

\* the contents the active-config file may have after fs::copy(from, config)
\* returned Ok; copying a file onto itself leaves it as it is or truncated
copy_outcomes(files, config, from) ==
    IF from = ConfigPath
    THEN { config, RegularFile(<< >>) }
    ELSE { RegularFile(FileAt(files, config, from).bytes) }

\* apply as it would be if it took the profile file by its name in the
\* profile directory instead of looking the name up in configs_by_name
apply_by_file_name(name) ==
    /\ UNCHANGED << kubenv_dir_exists, kubenv_files >>
    /\ UNCHANGED index_vars
    /\ UNCHANGED << imported, read_dir_order >>
    /\ LET from == FileAt(kubenv_files, kube_config,
                          KubenvPath(name \o KUBECONFIG_SUFFIX))
       IN  IF from.kind = "file"
           THEN /\ kube_config' = RegularFile(from.bytes)
                /\ last' = Call("apply", Some(name), << >>, "Ok", << >>)
           ELSE /\ UNCHANGED kube_config
                /\ last' = Call("apply", Some(name), << >>, "NotFound", << >>)

\* KubEnv::apply
apply(name) ==
    /\ UNCHANGED << kubenv_dir_exists, kubenv_files >>
    /\ UNCHANGED index_vars
    /\ UNCHANGED << imported, read_dir_order >>
    /\ IF ~has_config_by_name(Self, name)
       THEN /\ last' = Call("apply", Some(name), << >>, "NotFound", << >>)
            /\ UNCHANGED kube_config
       ELSE LET kubeconfig == configs_by_name[name]
                h == get_file_hash(kubenv_files, kube_config, ConfigPath)
                from == FileAt(kubenv_files, kube_config, kubeconfig.path)
            IN  IF h.ok /\ h.hash = kubeconfig.hash
                THEN /\ last' = Call("apply", Some(name), << >>,
                                     "AlreadyApplied", << >>)
                     /\ UNCHANGED kube_config
                ELSE \/ /\ from.kind = "file"
                        /\ kube_config' \in copy_outcomes(kubenv_files,
                                               kube_config, kubeconfig.path)
                        /\ last' = Call("apply", Some(name), << >>, "Ok", << >>)
                     \/ /\ from.kind # "file" \/ kube_config.kind = "unreadable"
                        /\ UNCHANGED kube_config
                        /\ last' = Call("apply", Some(name), << >>,
                                        "CopyError", << >>)

\* KubEnv::remove
remove(name) ==
    /\ UNCHANGED kubenv_dir_exists
    /\ UNCHANGED index_vars
    /\ UNCHANGED << imported, read_dir_order >>
    /\ IF ~has_config_by_name(Self, name)
       THEN /\ last' = Call("remove", Some(name), << >>, "NotFound", << >>)
            /\ UNCHANGED << kubenv_files, kube_config >>
       ELSE LET path == configs_by_name[name].path
                f == FileAt(kubenv_files, kube_config, path)
            IN  \/ /\ f.kind # "absent"
                   /\ IF path.dir = "kube_dir"
                      THEN /\ kube_config' = AbsentFile
                           /\ UNCHANGED kubenv_files
                      ELSE /\ kubenv_files' = Without(kubenv_files, path.file)
                           /\ UNCHANGED kube_config
                   /\ last' = Call("remove", Some(name), << >>, "Ok", << >>)
                \/ /\ f.kind # "file"
                   /\ UNCHANGED << kubenv_files, kube_config >>
                   /\ last' = Call("remove", Some(name), << >>,
                                   "RemoveError", << >>)

\* what reading the reader of get_content(name) to its end yields
get_content_result(self, files, config, name) ==
    IF ~has_config_by_name(self, name)
    THEN [res |-> "NotFound", out |-> << >>]
    ELSE LET f == FileAt(files, config, self.configs_by_name[name].path)
         IN  IF f.kind = "file"
             THEN [res |-> "Ok", out |-> f.bytes]
             ELSE [res |-> "OpenError", out |-> << >>]

\* KubEnv::get_content (export, show)
get_content(name) ==
    LET r == get_content_result(Self, kubenv_files, kube_config, name)
    IN  /\ last' = Call("export", Some(name), << >>, r.res, r.out)
        /\ UNCHANGED fs_vars
        /\ UNCHANGED index_vars
        /\ UNCHANGED << imported, read_dir_order >>

----------------------------------------------------------------------------
(* Changes made to the filesystem from outside the store *)

\* another tool writes, protects or deletes <kube_dir>/config
ExternalWriteConfig(f) ==
    /\ f # kube_config
    /\ kube_config' = f
    /\ last' = Call("external", None, << >>, "Ok", << >>)
    /\ UNCHANGED << imported, read_dir_order >>
    /\ UNCHANGED << kubenv_dir_exists, kubenv_files >>
    /\ UNCHANGED index_vars

\* a profile file is deleted directly on disk
ExternalDeleteProfile(file_name) ==
    /\ file_name \in DOMAIN kubenv_files
    /\ kubenv_files' = Without(kubenv_files, file_name)
    /\ last' = Call("external", None, << >>, "Ok", << >>)
    /\ UNCHANGED << imported, read_dir_order >>
    /\ UNCHANGED << kubenv_dir_exists, kube_config >>
    /\ UNCHANGED index_vars

----------------------------------------------------------------------------
(* The specification *)

\* the names a caller looks up: the explicit names and the indexed ones
LookupNames == Names \cup DOMAIN configs_by_name

\* the file names the profile directory may hold
FileNames == { n \o KUBECONFIG_SUFFIX : n \in Names \cup { digest(c) : c \in Contents } }

ConfigFiles == { AbsentFile, UnreadableFile } \cup { RegularFile(c) : c \in Contents }

Next ==
    \/ sync
    \/ \E name \in { None } \cup { Some(n) : n \in Names }, content \in Contents :
           set_content(name, content)
    \/ \E name \in LookupNames : apply(name)
    \/ \E name \in LookupNames : remove(name)
    \/ \E name \in LookupNames : get_content(name)
    \/ \E f \in ConfigFiles : ExternalWriteConfig(f)
    \/ \E file_name \in FileNames : ExternalDeleteProfile(file_name)

Spec == Init /\ [][Next]_vars

----------------------------------------------------------------------------
(* Runs of import and sync calls only, with the successful imports recorded *)

\* set_content, recorded
import_recorded(name, content) ==
    /\ WithinMaxFiles(name, content)
    /\ set_content_body(name, content)
    /\ imported' = IF last'.res = "Ok"
                   THEN imported \cup { [name |-> set_content_name(name, content),
                                         hash |-> digest(content)] }
                   ELSE imported
    /\ UNCHANGED read_dir_order

NextImports ==
    \/ sync
    \/ \E name \in { None } \cup { Some(n) : n \in Names }, content \in Contents :
           import_recorded(name, content)

SpecImports == Init /\ [][NextImports]_vars

----------------------------------------------------------------------------
(* Runs that change the files and sync, with the order of read_dir recorded *)

\* sync, recorded
sync_recorded ==
    \E order \in ReadDirOrders(DOMAIN kubenv_files) :
        /\ sync_body(order)
        /\ read_dir_order' = order

NextReadDir ==
    \/ sync_recorded
    \/ \E name \in { None } \cup { Some(n) : n \in Names }, content \in Contents :
           set_content(name, content)
    \/ \E name \in LookupNames : remove(name)
    \/ \E f \in ConfigFiles : ExternalWriteConfig(f)
    \/ \E file_name \in FileNames : ExternalDeleteProfile(file_name)

SpecReadDir == Init /\ [][NextReadDir]_vars

----------------------------------------------------------------------------
(* Properties *)

\* the KubEnv struct after the step
SelfNext == SelfOf(current_config', configs', configs_by_name', configs_by_hash')

\* C1: after a successful sync, list() is in ascending order of name: every
\* adjacent pair p, q of configs has p.name < q.name.
C1_ListSortedAfterSync ==
    last.op = "sync" =>
        \A i \in 1..(Len(configs) - 1) :
            StrLess(configs[i].name, configs[i + 1].name)

\* C2: in a run of import and sync calls, an import whose explicit name is the
\* name of an earlier successful import, or whose digest is the digest of an
\* earlier successful import, fails with the duplicate-name or
\* duplicate-content error and leaves the profile directory unchanged.
C2_ConflictingImportFails ==
    [][ last'.op = "import" =>
          LET name_taken == /\ last'.name.some
                            /\ \E r \in imported : r.name = last'.name.val
              hash_taken == \E r \in imported : r.hash = digest(last'.content)
          IN  (name_taken \/ hash_taken) =>
                  /\ kubenv_files' = kubenv_files
                  /\ \/ hash_taken /\ last'.res = "DuplicateContent"
                     \/ name_taken /\ last'.res = "DuplicateName" ]_vars

\* C3: no two profiles of the in-memory index (the list and the two maps)
\* share a name, and no two share a digest.
C3_IndexUnique ==
    /\ \A i, j \in 1..Len(configs) :
           i # j => /\ configs[i].name # configs[j].name
                    /\ configs[i].hash # configs[j].hash
    /\ \A m, n \in DOMAIN configs_by_name :
           m # n => /\ configs_by_name[m].name # configs_by_name[n].name
                    /\ configs_by_name[m].hash # configs_by_name[n].hash
    /\ \A g, h \in DOMAIN configs_by_hash :
           g # h => /\ configs_by_hash[g].name # configs_by_hash[h].name
                    /\ configs_by_hash[g].hash # configs_by_hash[h].hash

\* C3 witness: a sync has indexed two profiles from a directory in which two
\* files have the same bytes, so that add refused a profile for its digest.
C3_Witness ==
    /\ last.op = "sync"
    /\ Len(configs) >= 2
    /\ \E f, g \in DOMAIN kubenv_files :
           f # g /\ kubenv_files[f].bytes = kubenv_files[g].bytes

C5_RoundTrip ==
    [][ (last.op = "import" /\ last.res = "Ok" /\ last'.op = "sync") =>
          get_content_result(SelfNext, kubenv_files', kube_config',
                             set_content_name(last.name, last.content))
            = [res |-> "Ok", out |-> last.content] ]_vars

\* C6: when sync runs while the backing file of an indexed profile named n is
\* gone from the profile directory, then after it list() has no profile named
\* n and apply(n), export(n) and remove(n) find no config, whatever the
\* active-config file is.
C6_GoneAfterSync ==
    [][ last'.op = "sync" =>
          \A n \in DOMAIN configs_by_name :
              ( /\ configs_by_name[n].path.dir = "kubenv_dir"
                /\ FileAt(kubenv_files, kube_config,
                          configs_by_name[n].path).kind = "absent" ) =>
                  /\ \A i \in 1..Len(configs') : configs'[i].name # n
                  /\ ~has_config_by_name(SelfNext, n) ]_vars

\* C7: after sync, when the active-config file exists and its digest is the
\* digest of the profile file named n, current_config() is a profile named n.
C7_CurrentConfigNamed ==
    (last.op = "sync" /\ kube_config.kind = "file") =>
        \A f \in DOMAIN kubenv_files :
            ( /\ kubenv_files[f].kind = "file"
              /\ digest(kubenv_files[f].bytes) = digest(kube_config.bytes) ) =>
                /\ current_config # << >>
                /\ current_config[1].name = strip_suffix(f, KUBECONFIG_SUFFIX)

\* C8: after a sync that found the active-config file absent or unreadable,
\* current_config() is none, whatever an earlier sync saw.
C8_NoCurrentWithoutActiveFile ==
    (last.op = "sync" /\ kube_config.kind # "file") => current_config = << >>

\* C9: remove deletes at most one file, a file of the profile directory; the
\* active-config file still exists after a remove call if it existed before.
C9_RemoveKeepsActiveConfig ==
    [][ last'.op = "remove" =>
          /\ kube_config.kind # "absent" => kube_config'.kind # "absent"
          /\ DOMAIN kubenv_files' \subseteq DOMAIN kubenv_files
          /\ Cardinality(DOMAIN kubenv_files \ DOMAIN kubenv_files') <= 1
          /\ \A f \in DOMAIN kubenv_files' : kubenv_files'[f] = kubenv_files[f]
      ]_vars

\* C10: when import without a name succeeded and sync is the next call, the
\* profile that sync indexes for that content is named by the first 8 hex
\* characters of the digest of the content.
C10_DefaultNameIsDigestPrefix ==
    [][ (last.op = "import" /\ ~last.name.some /\ last.res = "Ok"
           /\ last'.op = "sync") =>
          \A i \in 1..Len(configs') :
              (configs'[i].hash = digest(last.content)
                 /\ configs'[i].path.dir = "kubenv_dir") =>
                  configs'[i].name
                    = SubSeq(digest(last.content), 1, HashPrefixLen) ]_vars

\* C11: import without a name of content whose digest the index already
\* holds returns the duplicate-content error and writes no file: the files of
\* the profile directory and their bytes are unchanged.
C11_UnnamedDuplicateContentRejected ==
    [][ (last'.op = "import" /\ ~last'.name.some
           /\ digest(last'.content) \in DOMAIN configs_by_hash) =>
          /\ last'.res = "DuplicateContent"
          /\ kubenv_files' = kubenv_files
          /\ kube_config' = kube_config ]_vars

\* C11 witness: an unnamed import was refused for its content while the
\* profile directory holds no file named by that content's digest.
C11_Witness ==
    /\ last.op = "import"
    /\ ~last.name.some
    /\ last.res = "DuplicateContent"
    /\ digest(last.content) \in DOMAIN configs_by_hash
    /\ (digest(last.content) \o KUBECONFIG_SUFFIX) \notin DOMAIN kubenv_files

\* C12: apply, export and remove of a name that is not in the index return
\* the not-found error and change nothing on the filesystem: the
\* active-config file and every file of the profile directory stay as they
\* are.
C12_UnknownNameChangesNothing ==
    [][ (last'.op \in { "apply", "export", "remove" }
           /\ last'.name.val \notin DOMAIN configs_by_name) =>
          /\ last'.res = "NotFound"
          /\ UNCHANGED fs_vars ]_vars

\* C12 witness: apply of a name that is not indexed was refused although the
\* profile directory holds a file of that name and an active-config file
\* exists.
C12_Witness ==
    /\ last.op = "apply"
    /\ last.res = "NotFound"
    /\ last.name.val \notin DOMAIN configs_by_name
    /\ (last.name.val \o KUBECONFIG_SUFFIX) \in DOMAIN kubenv_files
    /\ kube_config.kind = "file"

\* C13: import, remove and apply, successful or failed, leave the in-memory
\* index as it is: list() and current_config() return the same after the call
\* as before it.
C13_IndexChangedOnlyBySync ==
    [][ last'.op \in { "import", "remove", "apply" } =>
          /\ configs' = configs
          /\ current_config' = current_config
          /\ configs_by_name' = configs_by_name
          /\ configs_by_hash' = configs_by_hash ]_vars

\* C13 witness: after a successful remove the index still lists the removed
\* profile, whose file is gone.
C13_Witness ==
    /\ last.op = "remove"
    /\ last.res = "Ok"
    /\ last.name.val \in DOMAIN configs_by_name
    /\ \E i \in 1..Len(configs) : configs[i].name = last.name.val
    /\ FileAt(kubenv_files, kube_config,
              configs_by_name[last.name.val].path).kind = "absent"

\* C14: a successful import made right after a sync creates a new file and
\* overwrites none: every file that was in the profile directory before the
\* call is still there with the same bytes.
C14_ImportOverwritesNothing ==
    [][ (last.op = "sync" /\ last'.op = "import" /\ last'.res = "Ok") =>
          \A f \in DOMAIN kubenv_files :
              /\ f \in DOMAIN kubenv_files'
              /\ kubenv_files'[f] = kubenv_files[f] ]_vars

\* C15: an import made right after a sync fails with the duplicate-content
\* error only if some file of the profile directory has the digest of the
\* content; content whose digest is only that of the active-config file can
\* be imported.
C15_DuplicateContentOnlyForProfileFiles ==
    [][ (last.op = "sync" /\ last'.op = "import"
           /\ last'.res = "DuplicateContent") =>
          \E f \in DOMAIN kubenv_files :
              /\ kubenv_files[f].kind = "file"
              /\ digest(kubenv_files[f].bytes) = digest(last'.content) ]_vars

C18_IndexCollectionsAgree ==
    /\ \A i \in 1..Len(configs) :
          /\ configs[i].name \in DOMAIN configs_by_name
          /\ configs_by_name[configs[i].name] = configs[i]
          /\ configs[i].hash \in DOMAIN configs_by_hash
          /\ configs_by_hash[configs[i].hash] = configs[i]
    /\ \A n \in DOMAIN configs_by_name :
          /\ configs_by_name[n].name = n
          /\ \E i \in 1..Len(configs) : configs[i] = configs_by_name[n]
    /\ \A h \in DOMAIN configs_by_hash :
          /\ configs_by_hash[h].hash = h
          /\ \E i \in 1..Len(configs) : configs[i] = configs_by_hash[h]
    /\ Len(configs) = Cardinality(DOMAIN configs_by_name)
    /\ Len(configs) = Cardinality(DOMAIN configs_by_hash)

\* C18 witness: the index holds a profile file and the active-config file,
\* and the files have changed since the sync that built it.
C18_Witness ==
    /\ Len(configs) = 2
    /\ \E i \in 1..2 : configs[i].path = ConfigPath
    /\ \E i \in 1..2 : configs[i].path # ConfigPath
    /\ last.op = "remove"
    /\ last.res = "Ok"

====
